---- MODULE Spec2Model ----
(***************************************************************************)
(* Streaming message delivery of the chat backend (routes/chats.ts):       *)
(* the conversation and message tables, the send endpoint                  *)
(* POST /api/chats/:id/messages with its SSE session and completion-source *)
(* callbacks, the listing endpoint GET /api/chats/:id/messages and         *)
(* POST /api/chats; and the conversation view of the frontend (ChatView,   *)
(* MessageList, MessageInput) with the streams it opens on the send       *)
(* endpoint.                                                               *)
(***************************************************************************)
EXTENDS Naturals, Sequences, FiniteSets, TLC

\* ---------------------------------------------------------------- bounds
MaxReq == 2        \* send requests in one behaviour
MaxConv == 2       \* conversation ids that requests may name
MaxChunks == 2     \* fragments one completion produces
MaxClock == 1      \* ticks of the wall clock

Reqs == 1..MaxReq
\* an identifier no conversation has, and the identifiers of conversations
UnknownId == 0
ConvIds == 0..MaxConv

\* ------------------------------------------------------- request inputs
\* req.body.content as JavaScript values: [t |-> typeof, v |-> text]
Undefined == [t |-> "undefined", v |-> ""]
EmptyString == [t |-> "string", v |-> ""]
NumberBody == [t |-> "number", v |-> "42"]
Hello == [t |-> "string", v |-> "hello"]
Bodies == {Undefined, EmptyString, NumberBody, Hello}

\* text fragments and failures the completion source can produce: a
\* completion yields "Hi", " there", "Hi", ... and may stop after any of them
Fragments == {"Hi", " there"}
FragmentsAt(k) == IF k % 2 = 1 THEN {"Hi"} ELSE {" there"}
SourceErrors == {"upstream failed"}

\* --------------------------------------------------------------- state
VARIABLES
  conversations,   \* table conversations: id -> [updated_at], deleted rows marked
  messages,        \* table messages, in insertion (rowid) order
  uuid,            \* number of identifiers uuidv4() has handed out
  clock,           \* new Date()
  req,             \* per send request: locals of the handler, response, session
  view,            \* state of the ChatView component
  streams          \* the streams subscribeToSSE has opened for the view, in order

vars == <<conversations, messages, uuid, clock, req, view, streams>>

NoId == 0
NoResponse == [status |-> 0, body |-> "", ended |-> FALSE]

\* a handler that has not been entered
NewReq ==
  [pc |-> "new", id |-> 0, content |-> Undefined,
   conversationHistory |-> <<>>,
   userMessageId |-> NoId, assistantMessageId |-> NoId,
   fullResponse |-> "",
   res |-> NoResponse,
   isConnected |-> FALSE, events |-> <<>>,
   source |-> "none", sourceText |-> "", sourceCount |-> 0,
   cancelCalls |-> 0, failure |-> "none", unhandled |-> FALSE]

\* ChatView before a route with a conversation id is shown
NoRoute == 0
NewView ==
  [id |-> NoRoute, messages |-> <<>>, streamingContent |-> "",
   isStreaming |-> FALSE, cleanupRef |-> 0, error |-> "",
   loading |-> FALSE, loads |-> {}]

\* ------------------------------------------------------------ the store
\* INSERT INTO messages (id, conversation_id, role, content, status, created_at)
InsertMessageResurrecting(msgs, mid, cid, role, content, status, now) ==
  Append([i \in DOMAIN msgs |->
            IF msgs[i].conversation_id = cid /\ msgs[i].status = "failed"
              THEN [msgs[i] EXCEPT !.status = "sending", !.error_message = ""]
              ELSE msgs[i]],
         [id |-> mid, conversation_id |-> cid, role |-> role,
          content |-> content, status |-> status,
          error_message |-> "", created_at |-> now])

InsertMessage(msgs, mid, cid, role, content, status, now) ==
  Append(msgs, [id |-> mid, conversation_id |-> cid, role |-> role,
                content |-> content, status |-> status,
                error_message |-> "", created_at |-> now])

UpdateFailedNoStatus(msgs, mid, err) ==
  [i \in DOMAIN msgs |->
     IF msgs[i].id = mid THEN [msgs[i] EXCEPT !.error_message = err] ELSE msgs[i]]

UpdateFailedNoDetail(msgs, mid, err) ==
  [i \in DOMAIN msgs |->
     IF msgs[i].id = mid THEN [msgs[i] EXCEPT !.status = "failed"] ELSE msgs[i]]

\* UPDATE messages SET status = ?, error_message = ? WHERE id = ?
UpdateFailed(msgs, mid, err) ==
  [i \in DOMAIN msgs |->
     IF msgs[i].id = mid
       THEN [msgs[i] EXCEPT !.status = "failed", !.error_message = err]
       ELSE msgs[i]]

UpdateSentEveryPending(msgs, mid, text) ==
  [i \in DOMAIN msgs |->
     IF msgs[i].id = mid \/ msgs[i].status = "sending"
       THEN [msgs[i] EXCEPT !.content = text, !.status = "sent"]
       ELSE msgs[i]]

UpdateSentEveryRow(msgs, mid, text) ==
  [i \in DOMAIN msgs |-> [msgs[i] EXCEPT !.content = text, !.status = "sent"]]

\* UPDATE messages SET content = ?, status = ? WHERE id = ?
UpdateSent(msgs, mid, text) ==
  [i \in DOMAIN msgs |->
     IF msgs[i].id = mid
       THEN [msgs[i] EXCEPT !.content = text, !.status = "sent"]
       ELSE msgs[i]]

\* stable selection of a sequence by a predicate on its elements
RECURSIVE SelectRows(_, _, _)
SelectRows(msgs, cid, statuses) ==
  IF msgs = <<>> THEN <<>>
  ELSE LET rest == SelectRows(Tail(msgs), cid, statuses)
       IN IF Head(msgs).conversation_id = cid /\ Head(msgs).status \in statuses
            THEN <<Head(msgs)>> \o rest ELSE rest

\* insertion of a row into a list sorted by created_at, after its equals
RECURSIVE InsertByCreatedAt(_, _)
InsertByCreatedAt(sorted, m) ==
  IF sorted = <<>> THEN <<m>>
  ELSE IF Head(sorted).created_at <= m.created_at
         THEN <<Head(sorted)>> \o InsertByCreatedAt(Tail(sorted), m)
         ELSE <<m>> \o sorted

\* ORDER BY created_at ASC (rows of equal created_at keep rowid order)
RECURSIVE OrderByCreatedAt(_)
OrderByCreatedAt(msgs) ==
  IF msgs = <<>> THEN <<>>
  ELSE InsertByCreatedAt(OrderByCreatedAt(SubSeq(msgs, 1, Len(msgs) - 1)),
                         msgs[Len(msgs)])

AllStatuses == {"sending", "sent", "failed"}

\* SELECT * FROM messages WHERE conversation_id = ? ORDER BY created_at ASC
MessagesOf(msgs, cid) == OrderByCreatedAt(SelectRows(msgs, cid, AllStatuses))

HistoryAnyStatus(msgs, cid) ==
  LET rows == OrderByCreatedAt(SelectRows(msgs, cid, AllStatuses))
  IN [i \in DOMAIN rows |-> [role |-> rows[i].role, content |-> rows[i].content]]

\* SELECT ... WHERE conversation_id = ? AND status = 'sent' ORDER BY created_at ASC
\* mapped to {role, content}
History(msgs, cid) ==
  LET rows == OrderByCreatedAt(SelectRows(msgs, cid, {"sent"}))
  IN [i \in DOMAIN rows |-> [role |-> rows[i].role, content |-> rows[i].content]]

\* ------------------------------------------------------------- helpers
\* !content
Falsy(c) == c.t = "undefined" \/ (c.t = "string" /\ c.v = "")

InvalidContentTypeOnly(c) == c.t # "string"

\* !content || typeof content !== 'string'
InvalidContent(c) == Falsy(c) \/ c.t # "string"

\* res.status(status).json({ error: body })
Json(status, body) == [status |-> status, body |-> body, ended |-> TRUE]

\* the response head the session writes when it is created
EventStream == [status |-> 200, body |-> "text/event-stream", ended |-> FALSE]

EndOmitted(res) == res

\* res.end()
End(res) == [res EXCEPT !.ended = TRUE]

\* the user row of an exchange
WithUserMessage(msgs, mid, cid, content, now) ==
  InsertMessage(msgs, mid, cid, "user", content, "sent", now)

WithPlaceholderSkipped(msgs, mid, cid, now) == msgs

\* the assistant placeholder of an exchange
WithPlaceholder(msgs, mid, cid, now) ==
  InsertMessage(msgs, mid, cid, "assistant", "", "sending", now)

\* session.push(data, eventName)
Push(events, name, data) == Append(events, [event |-> name, data |-> data])

ChunkDataAccumulated(chunk, fullResponse) == [content |-> fullResponse]

\* the payload of a chunk event for a fragment
ChunkData(chunk, fullResponse) == [content |-> chunk]

\* the payload of a done event
DoneData(mid, fullText, fullResponse) == [messageId |-> mid, content |-> fullText]

\* the payload of an error event
ErrorData(message) == [error |-> message]

\* the text the completion source hands to onDone: what it has produced
SourceFullText(r) == req[r].sourceText

Exists(cid) == cid \in DOMAIN conversations /\ ~conversations[cid].deleted

\* ------------------------------------------------------------- actions
Init ==
  /\ conversations = << >>
  /\ messages = << >>
  /\ uuid = 0
  /\ clock = 0
  /\ req = [r \in Reqs |-> NewReq]
  /\ view = NewView
  /\ streams = << >>

\* time passes
Tick ==
  /\ clock < MaxClock
  /\ clock' = clock + 1
  /\ UNCHANGED <<conversations, messages, uuid, req, view, streams>>

\* router.post('/'): the ids of conversations are handed out in order
CreateConversation ==
  /\ Len(conversations) < MaxConv
  /\ conversations' = Append(conversations, [updated_at |-> clock, deleted |-> FALSE])
  /\ UNCHANGED <<messages, uuid, clock, req, view, streams>>

\* the listings ORDER BY created_at ASC allows for a conversation: the order
\* of rows with equal created_at is left open by the query, and GetMessages
\* shows the one that follows the rowid
Listings(msgs, cid) ==
  LET rows == SelectRows(msgs, cid, AllStatuses)
  IN {[i \in DOMAIN rows |-> rows[f[i]]] :
        f \in {g \in [DOMAIN rows -> DOMAIN rows] :
                 /\ \A i, j \in DOMAIN rows : i # j => g[i] # g[j]
                 /\ \A i, j \in DOMAIN rows :
                      i < j => rows[g[i]].created_at <= rows[g[j]].created_at}}

\* insertion of a conversation id into a list sorted by updated_at,
\* latest first, after its equals
RECURSIVE InsertByUpdatedAt(_, _, _)
InsertByUpdatedAt(convs, sorted, cid) ==
  IF sorted = <<>> THEN <<cid>>
  ELSE IF convs[Head(sorted)].updated_at >= convs[cid].updated_at
         THEN <<Head(sorted)>> \o InsertByUpdatedAt(convs, Tail(sorted), cid)
         ELSE <<cid>> \o sorted

RECURSIVE OrderByUpdatedAtAscending(_, _)
OrderByUpdatedAtAscending(convs, n) ==
  IF n = 0 THEN <<>>
  ELSE LET rest == OrderByUpdatedAtAscending(convs, n - 1)
           later == {i \in DOMAIN rest : convs[rest[i]].updated_at > convs[n].updated_at}
       IN IF later = {} THEN Append(rest, n)
          ELSE LET at == CHOOSE i \in later : \A j \in later : i <= j
               IN SubSeq(rest, 1, at - 1) \o <<n>> \o SubSeq(rest, at, Len(rest))

\* ORDER BY updated_at DESC over the first n conversations
RECURSIVE OrderByUpdatedAt(_, _)
OrderByUpdatedAt(convs, n) ==
  IF n = 0 THEN <<>>
  ELSE IF convs[n].deleted THEN OrderByUpdatedAt(convs, n - 1)
  ELSE InsertByUpdatedAt(convs, OrderByUpdatedAt(convs, n - 1), n)

\* router.get('/'): the ids of the conversations listed, in order
GetConversations == OrderByUpdatedAt(conversations, Len(conversations))

GetMessagesNoCheck(cid) == [status |-> 200, body |-> MessagesOf(messages, cid)]

\* router.get('/:id/messages'): the response to a request made in this state
GetMessages(cid) ==
  IF ~Exists(cid)
    THEN [status |-> 404, body |-> <<>>]
    ELSE [status |-> 200, body |-> MessagesOf(messages, cid)]

\* router.post('/:id/messages'), up to `await createSession(req, res)`
PostMessages(r, cid, content) ==
  /\ req[r].pc = "new"
  /\ \A q \in 1..(r - 1) : req[q].pc # "new"
  /\ IF InvalidContent(content) THEN
       /\ req' = [req EXCEPT ![r] = [@ EXCEPT !.pc = "responded", !.id = cid,
                    !.content = content,
                    !.res = Json(400, "Message content is required")]]
       /\ UNCHANGED <<conversations, messages, uuid>>
     ELSE IF ~Exists(cid) THEN
       /\ req' = [req EXCEPT ![r] = [@ EXCEPT !.pc = "responded", !.id = cid,
                    !.content = content,
                    !.res = Json(404, "Conversation not found")]]
       /\ UNCHANGED <<conversations, messages, uuid>>
     ELSE
       LET userMessageId == uuid + 1
           assistantMessageId == uuid + 2
           now == clock
           withUser == WithUserMessage(messages, userMessageId, cid, content.v, now)
       IN /\ messages' = WithPlaceholder(withUser, assistantMessageId, cid, now)
          /\ uuid' = uuid + 2
          /\ conversations' = [conversations EXCEPT ![cid].updated_at = now]
          /\ req' = [req EXCEPT ![r] = [@ EXCEPT !.pc = "createSession",
                       !.id = cid, !.content = content,
                       !.conversationHistory = History(messages, cid),
                       !.userMessageId = userMessageId,
                       !.assistantMessageId = assistantMessageId]]
  /\ UNCHANGED <<clock, view, streams>>

\* createSession resolves; createAIStream is started and the disconnect
\* handler registered
OpenSession(r) ==
  /\ req[r].pc = "createSession"
  /\ req' = [req EXCEPT ![r] = [@ EXCEPT !.pc = "session",
               !.res = EventStream,
               !.isConnected = TRUE,
               !.source = "running"]]
  /\ UNCHANGED <<conversations, messages, uuid, clock, view, streams>>

\* onChunk callback of createAIStream
OnChunk(r, chunk) ==
  /\ req[r].source = "running"
  /\ req[r].sourceCount < MaxChunks
  /\ chunk \in FragmentsAt(req[r].sourceCount + 1)
  /\ req' = [req EXCEPT ![r] = [@ EXCEPT
               !.sourceText = @ \o chunk, !.sourceCount = @ + 1,
               !.fullResponse = @ \o chunk,
               !.events = Push(@, "chunk",
                               ChunkData(chunk, req[r].fullResponse \o chunk))]]
  /\ UNCHANGED <<conversations, messages, uuid, clock, view, streams>>

\* onError callback of createAIStream
OnError(r, message) ==
  /\ req[r].source = "running"
  /\ messages' = UpdateFailed(messages, req[r].assistantMessageId, message)
  /\ req' = [req EXCEPT ![r] = [@ EXCEPT !.source = "failed",
               !.events = Push(@, "error", ErrorData(message)),
               !.res = End(@)]]
  /\ UNCHANGED <<conversations, uuid, clock, view, streams>>

\* onDone callback of createAIStream
OnDone(r) ==
  /\ req[r].source = "running"
  /\ LET fullText == SourceFullText(r)
     IN /\ messages' = UpdateSent(messages, req[r].assistantMessageId, fullText)
        /\ req' = [req EXCEPT ![r] = [@ EXCEPT !.source = "done",
                     !.events = Push(@, "done",
                         DoneData(req[r].assistantMessageId, fullText,
                                  req[r].fullResponse)),
                     !.res = End(@)]]
  /\ UNCHANGED <<conversations, uuid, clock, view, streams>>

DisconnectedMarksFailed(r) ==
  /\ req[r].isConnected
  /\ messages' = UpdateFailed(messages, req[r].assistantMessageId, "cancelled")
  /\ req' = [req EXCEPT ![r] = [@ EXCEPT !.isConnected = FALSE,
               !.cancelCalls = IF req[r].pc = "session" THEN @ + 1 ELSE @,
               !.source = IF @ = "running" THEN "cancelled" ELSE @]]
  /\ UNCHANGED <<conversations, uuid, clock, view, streams>>

\* the connection closes: the session emits 'disconnected' once, and the
\* handler registered for it calls cancelStream()
Disconnected(r) ==
  /\ req[r].isConnected
  /\ req' = [req EXCEPT ![r] = [@ EXCEPT !.isConnected = FALSE,
               !.cancelCalls = IF req[r].pc = "session" THEN @ + 1 ELSE @,
               !.source = IF @ = "running" THEN "cancelled" ELSE @]]
  /\ UNCHANGED <<conversations, messages, uuid, clock, view, streams>>

Next ==
  \/ Tick
  \/ CreateConversation
  \/ \E r \in Reqs, cid \in DOMAIN conversations \cup {UnknownId}, content \in Bodies :
       PostMessages(r, cid, content)
  \/ \E r \in Reqs : OpenSession(r)
  \/ \E r \in Reqs, chunk \in Fragments : OnChunk(r, chunk)
  \/ \E r \in Reqs, message \in SourceErrors : OnError(r, message)
  \/ \E r \in Reqs : OnDone(r)
  \/ \E r \in Reqs : Disconnected(r)

Spec == Init /\ [][Next]_vars

\* what the backend does without a new request: a session that is being
\* created gets created, a running completion source produces and ends
Callbacks ==
  \/ \E r \in Reqs : OpenSession(r)
  \/ \E r \in Reqs, chunk \in Fragments : OnChunk(r, chunk)
  \/ \E r \in Reqs, message \in SourceErrors : OnError(r, message)
  \/ \E r \in Reqs : OnDone(r)

\* the event loop runs whatever is ready
SpecFair == Spec /\ WF_vars(Callbacks)

\* ------------------------------------------------------ failing steps
\* createAIStream throws after the session was created: the catch block
\* calls res.status(500).json(...) on a response whose headers are sent,
\* which throws in turn and rejects the handler's promise
CreateAIStreamThrows(r) ==
  /\ req[r].pc = "createSession"
  /\ req' = [req EXCEPT ![r] = [@ EXCEPT !.pc = "rejected",
               !.res = EventStream,
               !.isConnected = TRUE,
               !.failure = "createAIStream", !.unhandled = TRUE]]
  /\ UNCHANGED <<conversations, messages, uuid, clock, view, streams>>

\* the UPDATE of the onError callback throws: nothing after it runs
OnErrorWriteFails(r, message) ==
  /\ req[r].source = "running"
  /\ req' = [req EXCEPT ![r] = [@ EXCEPT !.source = "failed",
               !.failure = "onError", !.unhandled = TRUE]]
  /\ UNCHANGED <<conversations, messages, uuid, clock, view, streams>>

\* the UPDATE of the onDone callback throws: nothing after it runs
OnDoneWriteFails(r) ==
  /\ req[r].source = "running"
  /\ req' = [req EXCEPT ![r] = [@ EXCEPT !.source = "done",
               !.failure = "onDone", !.unhandled = TRUE]]
  /\ UNCHANGED <<conversations, messages, uuid, clock, view, streams>>

NextFault ==
  \/ Next
  \/ \E r \in Reqs : CreateAIStreamThrows(r)
  \/ \E r \in Reqs, message \in SourceErrors : OnErrorWriteFails(r, message)
  \/ \E r \in Reqs : OnDoneWriteFails(r)

SpecFault == Init /\ [][NextFault]_vars

\* ------------------------------------------- deleting a conversation
\* the rows of messages that stay when a conversation is deleted: the
\* foreign key of messages.conversation_id deletes the others
RECURSIVE WithoutConversation(_, _)
WithoutConversation(msgs, cid) ==
  IF msgs = <<>> THEN <<>>
  ELSE IF Head(msgs).conversation_id = cid
         THEN WithoutConversation(Tail(msgs), cid)
         ELSE <<Head(msgs)>> \o WithoutConversation(Tail(msgs), cid)

DeleteConversationKeepsMessages(cid) ==
  IF ~Exists(cid) THEN UNCHANGED vars
  ELSE /\ conversations' = [conversations EXCEPT ![cid].deleted = TRUE]
       /\ UNCHANGED <<messages, uuid, clock, req, view, streams>>

\* router.delete('/:id'): 404 when no row was deleted, success otherwise
DeleteConversation(cid) ==
  IF ~Exists(cid) THEN UNCHANGED vars
  ELSE /\ conversations' = [conversations EXCEPT ![cid].deleted = TRUE]
       /\ messages' = WithoutConversation(messages, cid)
       /\ UNCHANGED <<uuid, clock, req, view, streams>>

\* the routes with DELETE, the clock standing still
NextDelete ==
  \/ CreateConversation
  \/ \E cid \in DOMAIN conversations : DeleteConversation(cid)
  \/ \E r \in Reqs, cid \in DOMAIN conversations \cup {UnknownId}, content \in Bodies :
       PostMessages(r, cid, content)
  \/ \E r \in Reqs : OpenSession(r)
  \/ \E r \in Reqs, chunk \in Fragments : OnChunk(r, chunk)
  \/ \E r \in Reqs, message \in SourceErrors : OnError(r, message)
  \/ \E r \in Reqs : OnDone(r)
  \/ \E r \in Reqs : Disconnected(r)

SpecDelete == Init /\ [][NextDelete]_vars

\* the INSERT of the placeholder throws: the user message is in the store,
\* the catch block answers 500
PlaceholderInsertFails(r, cid, content) ==
  /\ req[r].pc = "new"
  /\ \A q \in 1..(r - 1) : req[q].pc # "new"
  /\ ~InvalidContent(content)
  /\ Exists(cid)
  /\ messages' = WithUserMessage(messages, uuid + 1, cid, content.v, clock)
  /\ uuid' = uuid + 2
  /\ req' = [req EXCEPT ![r] = [@ EXCEPT !.pc = "responded",
               !.id = cid, !.content = content,
               !.conversationHistory = History(messages, cid),
               !.userMessageId = uuid + 1,
               !.failure = "insert",
               !.res = Json(500, "Failed to process message")]]
  /\ UNCHANGED <<conversations, clock, view, streams>>

NextInsertFault ==
  \/ Next
  \/ \E r \in Reqs, cid \in DOMAIN conversations, content \in Bodies :
       PlaceholderInsertFails(r, cid, content)

SpecInsertFault == Init /\ [][NextInsertFault]_vars

\* ------------------------------------------------ the conversation view
\* the sends of one session of the view; those after the MaxReq-th stay
\* unanswered
MaxSend == 3

\* what the user can submit, trimmed
Texts == {"hello", "again"}

\* the text of the k-th send of a session, so that a text sent again by a
\* retry differs from the text typed for that send
TextsAt(k) == IF k % 2 = 1 THEN {"hello"} ELSE {"again"}

\* identifiers of view entries: `temp-${Date.now()}`, `user-...`, or the
\* identifier of a row; the sends of a view are at least a round trip apart,
\* so the n-th send of the view reads a Date.now() of its own
TempId(n) == [prefix |-> "temp-", n |-> n]
RowId(mid) == [prefix |-> "", n |-> mid]

\* msg.id.replace('temp-', 'user-')
ReplaceTemp(id) == IF id.prefix = "temp-" THEN [id EXCEPT !.prefix = "user-"] ELSE id

\* a Message of the API as an entry of the view
EntryOfRow(row) ==
  [id |-> RowId(row.id), conversation_id |-> row.conversation_id,
   role |-> row.role, content |-> row.content, status |-> row.status,
   error_message |-> row.error_message]

\* body: JSON.stringify({ content })
StringBody(text) == [t |-> "string", v |-> text]

\* MessageBubble: the Retry button of an entry
RetryShown(m) == m.status = "failed" /\ m.role = "user"

\* MessageList: the bubbles on screen, the streaming text last
Rendered(v) ==
  [i \in DOMAIN v.messages |->
     [role |-> v.messages[i].role, content |-> v.messages[i].content,
      status |-> v.messages[i].status, retry |-> RetryShown(v.messages[i])]]
  \o (IF v.streamingContent # ""
        THEN <<[role |-> "assistant", content |-> v.streamingContent,
                status |-> "streaming", retry |-> FALSE]>>
        ELSE <<>>)

\* prev.filter((m) => m.id !== id)
RECURSIVE WithoutId(_, _)
WithoutId(entries, id) ==
  IF entries = <<>> THEN <<>>
  ELSE IF Head(entries).id = id THEN WithoutId(Tail(entries), id)
       ELSE <<Head(entries)>> \o WithoutId(Tail(entries), id)

\* the cancellation function subscribeToSSE returned, called
CancelStream(ss, k) ==
  IF k \in DOMAIN ss /\ ss[k].state = "open"
    THEN [ss EXCEPT ![k].state = "cancelled"] ELSE ss

\* the fetch effect of ChatView with both responses arrived: the stream of the
\* route that is left is closed, the list of the new route shown; the user
\* opens the conversations in the order of their creation
ViewOpen(cid) ==
  /\ Exists(cid)
  /\ cid > view.id
  /\ streams' = CancelStream(streams, view.cleanupRef)
  /\ view' = [id |-> cid,
              messages |-> [i \in DOMAIN GetMessages(cid).body |->
                              EntryOfRow(GetMessages(cid).body[i])],
              streamingContent |-> "", isStreaming |-> FALSE,
              cleanupRef |-> 0, error |-> "",
              loading |-> FALSE, loads |-> view.loads]
  /\ UNCHANGED <<conversations, messages, uuid, clock, req>>

SendGuardIdOnly(v) == v.id = NoRoute

\* if (!id || isStreaming) return
SendGuard(v) == v.id = NoRoute \/ v.isStreaming

SendMessagePrepends(v, ss, content) ==
  IF SendGuard(v) THEN [view |-> v, streams |-> ss]
  ELSE
    LET k == Len(ss) + 1
        tempUserMessage ==
          [id |-> TempId(k), conversation_id |-> v.id, role |-> "user",
           content |-> content, status |-> "sending", error_message |-> ""]
    IN [view |-> [v EXCEPT !.error = "",
                           !.messages = <<tempUserMessage>> \o @,
                           !.isStreaming = TRUE,
                           !.streamingContent = "",
                           !.cleanupRef = k],
        streams |-> Append(ss, [cid |-> v.id, content |-> content,
                                temp |-> tempUserMessage.id, state |-> "open",
                                delivered |-> 0, log |-> <<>>,
                                retryOf |-> 0])]

\* ChatView.sendMessage: the view and the streams after the call
SendMessage(v, ss, content) ==
  IF SendGuard(v) THEN [view |-> v, streams |-> ss]
  ELSE
    LET k == Len(ss) + 1
        tempUserMessage ==
          [id |-> TempId(k), conversation_id |-> v.id, role |-> "user",
           content |-> content, status |-> "sending", error_message |-> ""]
    IN [view |-> [v EXCEPT !.error = "",
                           !.messages = Append(@, tempUserMessage),
                           !.isStreaming = TRUE,
                           !.streamingContent = "",
                           !.cleanupRef = k],
        streams |-> Append(ss, [cid |-> v.id, content |-> content,
                                temp |-> tempUserMessage.id, state |-> "open",
                                delivered |-> 0, log |-> <<>>,
                                retryOf |-> 0])]

\* MessageInput.handleSubmit with a non-empty trimmed input
HandleSubmit(text) ==
  /\ view.id # NoRoute
  /\ text # "" /\ ~view.isStreaming
  /\ Len(streams) < MaxSend
  /\ view' = SendMessage(view, streams, text).view
  /\ streams' = SendMessage(view, streams, text).streams
  /\ UNCHANGED <<conversations, messages, uuid, clock, req>>

\* history: the streams ss2 that followed ss, a stream opened in between
\* recording the send whose entry was retried
Retried(ss, ss2, id) ==
  IF Len(ss2) > Len(ss) THEN [ss2 EXCEPT ![Len(ss2)].retryOf = id.n] ELSE ss2

\* ChatView.handleRetry, from the Retry button of entry i
HandleRetry(i) ==
  /\ i \in DOMAIN view.messages
  /\ RetryShown(view.messages[i])
  /\ SendGuard(view) \/ Len(streams) < MaxSend
  /\ LET message == view.messages[i]
         removed == [view EXCEPT !.messages = WithoutId(@, message.id)]
     IN /\ view' = SendMessage(removed, streams, message.content).view
        /\ streams' = Retried(streams,
                              SendMessage(removed, streams, message.content).streams,
                              message.id)
  /\ UNCHANGED <<conversations, messages, uuid, clock, req>>

PendingAfterClose(k) ==
  IF k \notin DOMAIN streams \/ k \notin Reqs THEN "none"
  ELSE IF req[k].pc = "responded" THEN "error"
  ELSE IF streams[k].delivered < Len(req[k].events)
         THEN req[k].events[streams[k].delivered + 1].event
  ELSE "none"

\* what subscribeToSSE dispatches next for stream k: the next event of the
\* channel, or the error of a JSON answer; nothing once the stream is closed
Pending(k) ==
  IF k \notin DOMAIN streams \/ k \notin Reqs THEN "none"
  ELSE IF streams[k].state # "open" THEN "none"
  ELSE IF req[k].pc = "responded" THEN "error"
  ELSE IF streams[k].delivered < Len(req[k].events)
         THEN req[k].events[streams[k].delivered + 1].event
  ELSE "none"

PendingData(k) ==
  IF req[k].pc = "responded" THEN [error |-> req[k].res.body]
  ELSE req[k].events[streams[k].delivered + 1].data

Dispatched(ss, k, name, state) ==
  [ss EXCEPT ![k].delivered = @ + 1, ![k].log = Append(@, name), ![k].state = state]

ViewOnChunkReplaces(k) ==
  /\ Pending(k) = "chunk"
  /\ view' = [view EXCEPT !.streamingContent = PendingData(k).content]
  /\ streams' = Dispatched(streams, k, "onChunk", "open")
  /\ UNCHANGED <<conversations, messages, uuid, clock, req>>

\* onChunk of the stream opened by the k-th send
ViewOnChunk(k) ==
  /\ Pending(k) = "chunk"
  /\ view' = [view EXCEPT !.streamingContent = @ \o PendingData(k).content]
  /\ streams' = Dispatched(streams, k, "onChunk", "open")
  /\ UNCHANGED <<conversations, messages, uuid, clock, req>>

ConfirmedKeepsTempId(msg) == [msg EXCEPT !.status = "sent"]

\* the optimistic entry of a send, confirmed
Confirmed(msg) == [msg EXCEPT !.status = "sent", !.id = ReplaceTemp(msg.id)]

\* onDone of the stream opened by the k-th send
ViewOnDone(k) ==
  /\ Pending(k) = "done"
  /\ LET updated == [i \in DOMAIN view.messages |->
                       IF view.messages[i].id = streams[k].temp
                         THEN Confirmed(view.messages[i])
                         ELSE view.messages[i]]
         assistantMessage ==
           [id |-> RowId(PendingData(k).messageId),
            conversation_id |-> streams[k].cid, role |-> "assistant",
            content |-> PendingData(k).content, status |-> "sent",
            error_message |-> ""]
     IN view' = [view EXCEPT !.messages = Append(updated, assistantMessage),
                             !.streamingContent = "",
                             !.isStreaming = FALSE,
                             !.cleanupRef = 0]
  /\ streams' = Dispatched(streams, k, "onDone", "ended")
  /\ UNCHANGED <<conversations, messages, uuid, clock, req>>

FailedWithoutDetail(msg, err) == [msg EXCEPT !.status = "failed"]

\* the optimistic entry of a send, failed
Failed(msg, err) == [msg EXCEPT !.status = "failed", !.error_message = err]

\* onError of the stream opened by the k-th send
ViewOnError(k) ==
  /\ Pending(k) = "error"
  /\ view' = [view EXCEPT
                !.messages = [i \in DOMAIN @ |->
                                IF @[i].id = streams[k].temp
                                  THEN Failed(@[i], PendingData(k).error)
                                  ELSE @[i]],
                !.streamingContent = "",
                !.isStreaming = FALSE,
                !.cleanupRef = 0,
                !.error = PendingData(k).error]
  /\ streams' = Dispatched(streams, k, "onError", "ended")
  /\ UNCHANGED <<conversations, messages, uuid, clock, req>>

\* the view, the network and the backend together: the requests of the send
\* endpoint are those of the view's streams, and a connection closes when
\* the response has ended or the client has closed the stream; the clock
\* stands still, the order of the rows by time being observed under Spec
NextView ==
  \/ CreateConversation
  \/ \E cid \in ConvIds : ViewOpen(cid)
  \/ \E text \in TextsAt(Len(streams) + 1) : HandleSubmit(text)
  \/ \E i \in 1..(2 * MaxSend) : HandleRetry(i)
  \/ \E k \in Reqs : ViewOnChunk(k)
  \/ \E k \in Reqs : ViewOnDone(k)
  \/ \E k \in Reqs : ViewOnError(k)
  \/ \E r \in Reqs : /\ r \in DOMAIN streams
                     /\ PostMessages(r, streams[r].cid, StringBody(streams[r].content))
  \/ \E r \in Reqs : OpenSession(r)
  \/ \E r \in Reqs, chunk \in Fragments : OnChunk(r, chunk)
  \/ \E r \in Reqs, message \in SourceErrors : OnError(r, message)
  \/ \E r \in Reqs : OnDone(r)
  \/ \E r \in Reqs : /\ r \in DOMAIN streams
                     /\ streams[r].state # "open" \/ req[r].res.ended
                     /\ Disconnected(r)

SpecView == Init /\ [][NextView]_vars

\* ------------------------------------------- the view, loading its list
\* the route changes to a conversation: the cleanup of the fetch effect
\* closes the open stream, and fetchData starts; view.loads holds the
\* conversations whose two requests are under way
Navigate(cid) ==
  /\ Exists(cid)
  /\ cid > view.id
  /\ streams' = CancelStream(streams, view.cleanupRef)
  /\ view' = [view EXCEPT !.id = cid,
                          !.loading = TRUE,
                          !.error = "",
                          !.streamingContent = "",
                          !.isStreaming = FALSE,
                          !.cleanupRef = 0,
                          !.loads = @ \cup {cid}]
  /\ UNCHANGED <<conversations, messages, uuid, clock, req>>

\* both responses of a fetchData have arrived: setMessages(messagesData),
\* setLoading(false)
LoadArrives(cid) ==
  /\ cid \in view.loads
  /\ GetMessages(cid).status = 200
  /\ view' = [view EXCEPT
                !.messages = [i \in DOMAIN GetMessages(cid).body |->
                                EntryOfRow(GetMessages(cid).body[i])],
                !.loading = FALSE,
                !.loads = @ \ {cid}]
  /\ UNCHANGED <<conversations, messages, uuid, clock, req, streams>>

\* a request of a fetchData has failed: setError(...), setLoading(false)
LoadFails(cid) ==
  /\ cid \in view.loads
  /\ view' = [view EXCEPT !.error = "Failed to load conversation",
                          !.loading = FALSE,
                          !.loads = @ \ {cid}]
  /\ UNCHANGED <<conversations, messages, uuid, clock, req, streams>>

\* the view with its loads, the network and the backend; the input and the
\* list are on screen only when the view is not loading
NextLoad ==
  \/ CreateConversation
  \/ \E cid \in ConvIds : Navigate(cid)
  \/ \E cid \in ConvIds : LoadArrives(cid)
  \/ \E cid \in ConvIds : LoadFails(cid)
  \/ \E text \in TextsAt(Len(streams) + 1) : ~view.loading /\ HandleSubmit(text)
  \/ \E i \in 1..(2 * MaxSend) : ~view.loading /\ HandleRetry(i)
  \/ \E k \in Reqs : ViewOnChunk(k)
  \/ \E k \in Reqs : ViewOnDone(k)
  \/ \E k \in Reqs : ViewOnError(k)
  \/ \E r \in Reqs : /\ r \in DOMAIN streams
                     /\ PostMessages(r, streams[r].cid, StringBody(streams[r].content))
  \/ \E r \in Reqs : OpenSession(r)
  \/ \E r \in Reqs, chunk \in Fragments : OnChunk(r, chunk)
  \/ \E r \in Reqs, message \in SourceErrors : OnError(r, message)
  \/ \E r \in Reqs : OnDone(r)
  \/ \E r \in Reqs : /\ r \in DOMAIN streams
                     /\ streams[r].state # "open" \/ req[r].res.ended
                     /\ Disconnected(r)

SpecLoad == Init /\ [][NextLoad]_vars

\* --------------------------------- the view and a backend that can fail
\* every send of the view reaches the backend, whose handling can fail once
\* the channel is open
NextViewFault ==
  \/ NextView /\ Len(streams') <= MaxReq
  \/ \E r \in Reqs : CreateAIStreamThrows(r)
  \/ \E r \in Reqs, message \in SourceErrors : OnErrorWriteFails(r, message)
  \/ \E r \in Reqs : OnDoneWriteFails(r)

\* what happens without the user: the request arrives and is handled, the
\* completion source produces and ends, the consumer dispatches what has
\* arrived
Progress ==
  \/ \E r \in Reqs : /\ r \in DOMAIN streams
                     /\ PostMessages(r, streams[r].cid, StringBody(streams[r].content))
  \/ \E r \in Reqs : OpenSession(r) \/ CreateAIStreamThrows(r)
  \/ \E r \in Reqs, chunk \in Fragments : OnChunk(r, chunk)
  \/ \E r \in Reqs, message \in SourceErrors :
       OnError(r, message) \/ OnErrorWriteFails(r, message)
  \/ \E r \in Reqs : OnDone(r) \/ OnDoneWriteFails(r)
  \/ \E k \in Reqs : ViewOnChunk(k) \/ ViewOnDone(k) \/ ViewOnError(k)

\* the event loops of the backend and of the browser run whatever is ready
SpecViewFault == Init /\ [][NextViewFault]_vars /\ WF_vars(Progress)

\* ------------------------------------- an at-least-once, late environment
MaxNotify == 2     \* disconnect notifications one session delivers

\* the transport delivers the disconnect notification again: the handler
\* registered at session.on('disconnected') runs once more
DisconnectedAgain(r) ==
  /\ req[r].pc = "session"
  /\ ~req[r].isConnected
  /\ req[r].cancelCalls < MaxNotify
  /\ req' = [req EXCEPT ![r] = [@ EXCEPT !.cancelCalls = @ + 1]]
  /\ UNCHANGED <<conversations, messages, uuid, clock, view, streams>>

\* a fragment that was under way when the stream was cancelled reaches
\* onChunk: session.push is called on the closed session
LateOnChunk(r, chunk) ==
  /\ req[r].source = "cancelled"
  /\ req[r].sourceCount < MaxChunks
  /\ chunk \in FragmentsAt(req[r].sourceCount + 1)
  /\ req' = [req EXCEPT ![r] = [@ EXCEPT
               !.sourceText = @ \o chunk, !.sourceCount = @ + 1,
               !.fullResponse = @ \o chunk,
               !.events = Push(@, "chunk",
                               ChunkData(chunk, req[r].fullResponse \o chunk))]]
  /\ UNCHANGED <<conversations, messages, uuid, clock, view, streams>>

\* the completion that was under way when the stream was cancelled reaches
\* onDone: the UPDATE runs, session.push is called on the closed session and
\* either throws (res.end() is not reached) or returns
LateOnDone(r, pushThrows) ==
  /\ req[r].source = "cancelled"
  /\ LET fullText == SourceFullText(r)
     IN /\ messages' = UpdateSent(messages, req[r].assistantMessageId, fullText)
        /\ req' = [req EXCEPT ![r] = [@ EXCEPT !.source = "done",
                     !.events = Push(@, "done",
                         DoneData(req[r].assistantMessageId, fullText,
                                  req[r].fullResponse)),
                     !.res = IF pushThrows THEN @ ELSE End(@),
                     !.unhandled = pushThrows]]
  /\ UNCHANGED <<conversations, uuid, clock, view, streams>>

NextLate ==
  \/ Next
  \/ \E r \in Reqs : DisconnectedAgain(r)
  \/ \E r \in Reqs, chunk \in Fragments : LateOnChunk(r, chunk)
  \/ \E r \in Reqs, pushThrows \in BOOLEAN : LateOnDone(r, pushThrows)

SpecLate == Init /\ [][NextLate]_vars

\* ------------------------------------------------- observation helpers
RECURSIVE ConcatChunks(_)
ConcatChunks(events) ==
  IF events = <<>> THEN ""
  ELSE IF Head(events).event = "chunk"
         THEN Head(events).data.content \o ConcatChunks(Tail(events))
         ELSE ConcatChunks(Tail(events))

EventIndexes(r, names) == {i \in DOMAIN req[r].events : req[r].events[i].event \in names}
Terminal == {"done", "error"}

\* the rows of the store with an identifier
Rows(mid) == {i \in DOMAIN messages : messages[i].id = mid}
HasRow(mid, cid, role, statuses) ==
  \E i \in Rows(mid) : /\ messages[i].conversation_id = cid
                       /\ messages[i].role = role
                       /\ messages[i].status \in statuses

\* the rows a listing of the conversation returns for an identifier
Listed(cid, mid) ==
  LET body == GetMessages(cid).body
  IN {body[i] : i \in {j \in DOMAIN body : body[j].id = mid}}

\* r pushes a chunk event in this step
PushesChunk(r) ==
  /\ Len(req'[r].events) = Len(req[r].events) + 1
  /\ req'[r].events[Len(req'[r].events)].event = "chunk"

\* ---------------------------------------------------------------- claims

\* C1: whenever a send request pushes a chunk event, the user message
\* (status sent) and its paired placeholder (status sending) are in the store
\* before that push.
C1_RowsBeforeChunk ==
  [][\A r \in Reqs : PushesChunk(r) =>
       /\ HasRow(req[r].userMessageId, req[r].id, "user", {"sent"})
       /\ HasRow(req[r].assistantMessageId, req[r].id, "assistant", {"sending"})]_vars

C1_Witness ==
  \E r \in Reqs :
    /\ EventIndexes(r, {"chunk"}) # {}
    /\ HasRow(req[r].userMessageId, req[r].id, "user", {"sent"})
    /\ HasRow(req[r].assistantMessageId, req[r].id, "assistant", AllStatuses)

\* C2: once a done (error) event has been pushed, a listing of the
\* conversation shows the placeholder with status sent and the content of the
\* event (with status failed and the error of the event).
C2_WriteBeforeTerminalEvent ==
  \A r \in Reqs : \A i \in EventIndexes(r, Terminal) :
    LET e == req[r].events[i]
        listed == Listed(req[r].id, req[r].assistantMessageId)
    IN /\ Cardinality(listed) = 1
       /\ \A m \in listed :
            IF e.event = "done"
              THEN m.status = "sent" /\ m.content = e.data.content
              ELSE m.status = "failed" /\ m.error_message = e.data.error

C2_Witness ==
  /\ \E r \in Reqs : EventIndexes(r, {"done"}) # {}
  /\ \E r \in Reqs : EventIndexes(r, {"error"}) # {}

C5_StatusStartsAtSending ==
  [][\A i \in DOMAIN messages' :
       IF i \in DOMAIN messages
         THEN /\ messages'[i].id = messages[i].id
              /\ \/ messages'[i].status = messages[i].status
                 \/ /\ messages[i].status = "sending"
                    /\ messages'[i].status \in {"sent", "failed"}
         ELSE messages'[i].status = "sending"]_vars

\* C5 (amended): an assistant row is created with status sending and changes
\* only from sending to sent or to failed; a user row is created with status
\* sent and never changes status.
C5_StatusMonotonic ==
  [][\A i \in DOMAIN messages' :
       IF i \in DOMAIN messages
         THEN /\ messages'[i].id = messages[i].id
              /\ messages'[i].role = messages[i].role
              /\ \/ messages'[i].status = messages[i].status
                 \/ /\ messages[i].role = "assistant"
                    /\ messages[i].status = "sending"
                    /\ messages'[i].status \in {"sent", "failed"}
         ELSE messages'[i].status =
                IF messages'[i].role = "assistant" THEN "sending" ELSE "sent"]_vars

C5_Witness ==
  /\ \E i \in DOMAIN messages :
       messages[i].role = "assistant" /\ messages[i].status = "sent"
  /\ \E i \in DOMAIN messages :
       messages[i].role = "assistant" /\ messages[i].status = "failed"
  /\ \E i \in DOMAIN messages :
       messages[i].role = "user" /\ messages[i].status = "sent"

\* C6: in every state, every conversation has at most one message of a role
\* with status sending.
C6_SinglePending ==
  \A cid \in DOMAIN conversations : \A role \in {"user", "assistant"} :
    Cardinality({i \in DOMAIN messages :
                   /\ messages[i].conversation_id = cid
                   /\ messages[i].role = role
                   /\ messages[i].status = "sending"}) <= 1

\* C7: a send request whose content is missing, empty or not a string, or
\* whose conversation does not exist, is answered 400 or 404, and a request
\* answered 400 or 404 leaves the message and conversation tables unchanged.
C7_RejectedLeavesStore ==
  [][\A r \in Reqs :
       (req[r].pc = "new" /\ req'[r].pc # "new") =>
         LET c == req'[r].content
             rejectable == \/ c.t # "string"
                           \/ c.v = ""
                           \/ req'[r].id \notin DOMAIN conversations
         IN /\ rejectable => req'[r].res.status \in {400, 404}
            /\ req'[r].res.status \in {400, 404} =>
                 /\ messages' = messages
                 /\ conversations' = conversations
                 /\ req'[r].userMessageId = NoId
                 /\ req'[r].assistantMessageId = NoId]_vars

C7_Witness ==
  \E r \in Reqs :
    /\ req[r].res.status \in {400, 404}
    /\ messages # <<>>
    /\ \E cid \in DOMAIN conversations : conversations[cid].updated_at < clock

\* C8 (as claimed): for a conversation id that is not in the store, the
\* listing endpoint and the send endpoint answer 404, whatever the body.
C8_UnknownIs404 ==
  /\ \A cid \in ConvIds : ~Exists(cid) => GetMessages(cid).status = 404
  /\ \A r \in Reqs :
       (req[r].pc # "new" /\ ~Exists(req[r].id)) => req[r].res.status = 404

\* C8 (amended): for a conversation id that is not in the store, the listing
\* endpoint answers 404, and the send endpoint answers 404 when the content
\* is a non-empty string and 400 otherwise.
C8_UnknownIs404ForValidBody ==
  /\ \A cid \in ConvIds : ~Exists(cid) => GetMessages(cid).status = 404
  /\ \A r \in Reqs :
       (req[r].pc # "new" /\ ~Exists(req[r].id)) =>
         req[r].res.status =
           IF req[r].content.t = "string" /\ req[r].content.v # "" THEN 404 ELSE 400

C8_Witness ==
  \E r \in Reqs :
    /\ req[r].res.status = 404
    /\ ~Exists(req[r].id)
    /\ GetMessages(req[r].id).status = 404
    /\ messages # <<>>

\* C9: when the completion source has failed, the placeholder is persisted
\* as failed with a non-empty error detail, one error event follows the
\* chunks relayed so far, no done event is pushed and the response is ended.
C9_SourceFailure ==
  \A r \in Reqs :
    (req[r].source = "failed") =>
      /\ HasRow(req[r].assistantMessageId, req[r].id, "assistant", {"failed"})
      /\ \A i \in Rows(req[r].assistantMessageId) : messages[i].error_message # ""
      /\ EventIndexes(r, {"error"}) = {Len(req[r].events)}
      /\ EventIndexes(r, {"done"}) = {}
      /\ EventIndexes(r, {"chunk"}) = 1..req[r].sourceCount
      /\ ConcatChunks(req[r].events) = req[r].sourceText
      /\ \A i \in Rows(req[r].assistantMessageId) :
           messages[i].error_message = req[r].events[Len(req[r].events)].data.error
      /\ req[r].res.ended

C9_Witness ==
  \E r \in Reqs :
    /\ req[r].source = "failed"
    /\ req[r].sourceCount >= 1
    /\ req[r].res.ended

\* C10: a failure after the channel has been opened leads to a terminal
\* event and an ended response, and no exception escapes.
C10_FailureBecomesTerminalEvent ==
  \A r \in Reqs :
    (req[r].failure # "none") =>
      /\ EventIndexes(r, Terminal) # {}
      /\ req[r].res.ended
      /\ ~req[r].unhandled
\* C11: a disconnect while the stream is in progress invokes the
\* cancellation handle, and the handle is invoked at most once in the life of
\* a request, however many disconnect notifications are delivered.
C11_CancelAtMostOnce ==
  \A r \in Reqs :
    /\ req[r].cancelCalls <= 1
    /\ req[r].source = "cancelled" => req[r].cancelCalls >= 1

\* C12: once the disconnect notification of a request has been delivered,
\* no chunk or done event is pushed for that request any more.
C12_NoPushAfterDisconnect ==
  [][\A r \in Reqs :
       (req[r].pc = "session" /\ ~req[r].isConnected) =>
         \A i \in DOMAIN req'[r].events :
           (i \notin DOMAIN req[r].events) =>
             req'[r].events[i].event \notin {"chunk", "done"}]_vars

OpenStreams == {k \in DOMAIN streams : streams[k].state = "open"}

Ids(entries) == {entries[i].id : i \in DOMAIN entries}

Optimistic(entries) == {i \in DOMAIN entries : entries[i].id.prefix = "temp-"}

Sending(entries) == {i \in DOMAIN entries : entries[i].status = "sending"}

\* C14: the view never has two streams open at once nor two entries being
\* sent, and a step taken while the view is streaming opens no stream and
\* appends no optimistic entry: a send issued then (a retry, the input being
\* disabled) is rejected.
C14_SendRejectedWhileStreaming ==
  /\ [](/\ Cardinality(OpenStreams) <= 1
        /\ Cardinality(Sending(view.messages)) <= 1
        /\ OpenStreams # {} => view.isStreaming /\ OpenStreams = {view.cleanupRef})
  /\ [][view.isStreaming =>
          /\ Len(streams') = Len(streams)
          /\ \A i \in Optimistic(view'.messages) :
               view'.messages[i].id \in Ids(view.messages)]_vars

\* a retry was issued while a later stream was open: the failed entry is gone,
\* and the open stream is still the last one
C14_Witness ==
  \E j, k \in DOMAIN streams :
    /\ j < k /\ k = Len(streams)
    /\ streams[k].state = "open" /\ view.isStreaming
    /\ streams[j].log # <<>> /\ streams[j].log[Len(streams[j].log)] = "onError"
    /\ streams[j].cid = view.id
    /\ streams[j].temp \notin Ids(view.messages)

TerminalCalls(k) ==
  {i \in DOMAIN streams[k].log : streams[k].log[i] \in {"onDone", "onError"}}

Calls(k, name) ==
  /\ k \in DOMAIN streams
  /\ streams'[k].log = Append(streams[k].log, name)

\* the positions of the optimistic entry of the k-th send
EntryOf(k) == {i \in DOMAIN view.messages : view.messages[i].id = streams[k].temp}

\* C16: the step of onDone keeps every other entry, turns the optimistic entry
\* of the send, where it stands, into an entry with a non-temporary id and
\* status sent, appends one assistant entry with the messageId and content of
\* the done event and status sent, empties the streaming buffer and leaves
\* the view idle.
C16_OnDoneReconciles ==
  [][\A k \in Reqs :
       Calls(k, "onDone") =>
         LET done == req[k].events[streams[k].delivered + 1]
             last == view'.messages[Len(view'.messages)]
         IN /\ done.event = "done"
            /\ Cardinality(EntryOf(k)) = 1
            /\ Len(view'.messages) = Len(view.messages) + 1
            /\ \A i \in DOMAIN view.messages :
                 IF i \in EntryOf(k)
                   THEN /\ view'.messages[i].id.prefix # "temp-"
                        /\ view'.messages[i].status = "sent"
                        /\ view'.messages[i].role = "user"
                        /\ view'.messages[i].content = streams[k].content
                   ELSE view'.messages[i] = view.messages[i]
            /\ last.id = RowId(done.data.messageId)
            /\ last.role = "assistant"
            /\ last.content = done.data.content
            /\ last.status = "sent"
            /\ view'.streamingContent = ""
            /\ ~view'.isStreaming]_vars

\* onDone has acted on a view that showed a failed entry before the
\* optimistic one and had text in the streaming buffer
C16_Witness ==
  \E k \in DOMAIN streams :
    /\ streams[k].log = <<"onChunk", "onChunk", "onDone">>
    /\ Len(view.messages) = 3
    /\ view.messages[1].status = "failed"
    /\ view.messages[2].id = [prefix |-> "user-", n |-> k]
    /\ view.messages[3].id = RowId(req[k].assistantMessageId)
    /\ view.messages[3].content = "Hi there"
    /\ ~view.isStreaming /\ view.streamingContent = ""

\* C17: the step of onError adds no entry, in particular none for the
\* assistant placeholder, marks the optimistic entry of the send failed with
\* the detail of the error, keeps every other entry, empties the streaming
\* buffer and leaves the view idle; the failed entry shows Retry, and only
\* failed user entries do.
C17_OnErrorMarksFailed ==
  [][\A k \in Reqs :
       Calls(k, "onError") =>
         LET detail == IF req[k].pc = "responded" THEN req[k].res.body
                       ELSE req[k].events[streams[k].delivered + 1].data.error
         IN /\ Cardinality(EntryOf(k)) = 1
            /\ Len(view'.messages) = Len(view.messages)
            /\ \A i \in DOMAIN view.messages :
                 IF i \in EntryOf(k)
                   THEN /\ view'.messages[i] =
                             [view.messages[i] EXCEPT !.status = "failed",
                                                      !.error_message = detail]
                        /\ Rendered(view')[i].retry
                   ELSE view'.messages[i] = view.messages[i]
            /\ \A i \in DOMAIN view'.messages :
                 view'.messages[i].id # RowId(req[k].assistantMessageId)
            /\ \A i \in DOMAIN Rendered(view') :
                 Rendered(view')[i].retry =>
                   /\ Rendered(view')[i].role = "user"
                   /\ Rendered(view')[i].status = "failed"
            /\ view'.streamingContent = ""
            /\ ~view'.isStreaming]_vars

\* onError has acted after a chunk was shown: the entry is failed with the
\* detail, the placeholder of the exchange is failed in the store
C17_Witness ==
  \E k \in DOMAIN streams :
    /\ streams[k].log = <<"onChunk", "onError">>
    /\ \E i \in DOMAIN view.messages :
         /\ view.messages[i].id = streams[k].temp
         /\ view.messages[i].status = "failed"
         /\ view.messages[i].error_message = "upstream failed"
    /\ \E i \in DOMAIN messages :
         /\ messages[i].id = req[k].assistantMessageId
         /\ messages[i].status = "failed"
    /\ ~view.isStreaming /\ view.streamingContent = ""

\* the step is a retry of entry i: the failed user entry leaves the list of
\* the conversation that stays displayed
Retries(i) ==
  /\ i \in DOMAIN view.messages
  /\ RetryShown(view.messages[i])
  /\ view'.id = view.id
  /\ view.messages[i].id \notin Ids(view'.messages)

\* C18: every step that retries a failed entry opens a new stream with the
\* text of the entry and appends an optimistic entry with that text.
C18_RetryResends ==
  [][\A i \in 1..(2 * MaxSend) :
       Retries(i) =>
         /\ Len(streams') = Len(streams) + 1
         /\ streams'[Len(streams')].content = view.messages[i].content
         /\ streams'[Len(streams')].state = "open"
         /\ Len(view'.messages) = Len(view.messages)
         /\ LET last == view'.messages[Len(view'.messages)]
            IN /\ last.id.prefix = "temp-"
               /\ last.content = view.messages[i].content
               /\ last.status = "sending"]_vars

\* the identifiers of the rows request r has inserted
PairOf(r) == {req[r].userMessageId, req[r].assistantMessageId} \ {NoId}

\* the rows of the store with these identifiers
RowsOf(msgs, ids) == {msgs[i] : i \in {j \in DOMAIN msgs : msgs[j].id \in ids}}

\* C19: the request of a stream opened by a retry inserts a user row with the
\* text of the retried entry and a placeholder, under identifiers no other
\* row has, and no step taken once a send has been retried changes the rows
\* of that send: they keep identifier, content, status and error detail.
C19_RetryCreatesNewPair ==
  /\ [](\A k \in DOMAIN streams :
          (k \in Reqs /\ streams[k].retryOf # 0 /\ req[k].pc # "new") =>
            LET j == streams[k].retryOf
            IN /\ Cardinality(PairOf(k)) = 2
               /\ PairOf(k) \cap PairOf(j) = {}
               /\ \A mid \in PairOf(k) : Cardinality(Rows(mid)) = 1
               /\ HasRow(req[k].userMessageId, streams[j].cid, "user", {"sent"})
               /\ HasRow(req[k].assistantMessageId, streams[j].cid, "assistant",
                         {"sending", "sent", "failed"})
               /\ \A i \in Rows(req[k].userMessageId) :
                    messages[i].content = streams[j].content
               /\ \E row \in RowsOf(messages, PairOf(j)) :
                    row.role = "assistant" /\ row.status = "failed")
  /\ [][\A k \in DOMAIN streams' :
          streams'[k].retryOf # 0 =>
            RowsOf(messages', PairOf(streams'[k].retryOf)) =
              RowsOf(messages, PairOf(streams'[k].retryOf))]_vars

\* a retried send whose request has inserted its rows, next to the two rows
\* of the failed exchange
C19_Witness ==
  \E k \in DOMAIN streams :
    /\ k \in Reqs /\ streams[k].retryOf # 0
    /\ req[k].pc = "session"
    /\ Cardinality(RowsOf(messages, PairOf(streams[k].retryOf))) = 2
    /\ Cardinality(RowsOf(messages, PairOf(k))) = 2

\* an entry the store has confirmed / an entry that is still local
IsConfirmed(m) == m.id.prefix # "temp-" /\ m.status = "sent"
IsLocal(m) == m.id.prefix = "temp-" \/ m.status = "failed"

\* what stays of an entry when the view confirms it
KeyOf(m) == [row |-> m.id.prefix = "", n |-> m.id.n]
Keys(entries) == [i \in DOMAIN entries |-> KeyOf(entries[i])]
KeySet(entries) == {KeyOf(entries[i]) : i \in DOMAIN entries}
Kept(keys, among) == SelectSeq(keys, LAMBDA key : key \in among)

C21_EventuallyIdle ==
  view.isStreaming ~> (~view.isStreaming /\ view.streamingContent = "")

\* C22: in every state of the store, the user message a send request has
\* inserted comes with the placeholder of the same request.
C22_UserMessageHasPlaceholder ==
  \A r \in Reqs :
    Rows(req[r].userMessageId) # {} =>
      HasRow(req[r].userMessageId + 1, req[r].id, "assistant", AllStatuses)

\* the time of an accepted request: created_at of the user message it inserted
RequestTime(r) ==
  LET i == CHOOSE i \in DOMAIN messages : messages[i].id = req[r].userMessageId
  IN messages[i].created_at

\* the place of a conversation in a listing
Place(list, cid) == CHOOSE i \in DOMAIN list : list[i] = cid

\* C23: from the state in which an accepted request waits for its channel
\* on, the conversation's updated_at is at least the time of the request,
\* and the listing of the conversations has it before every conversation
\* whose updated_at is earlier than that time.
C23_SendBumpsConversation ==
  \A r \in Reqs :
    req[r].pc \in {"createSession", "session"} =>
      /\ conversations[req[r].id].updated_at >= RequestTime(r)
      /\ Len(GetConversations) = Len(conversations)
      /\ \A d \in DOMAIN conversations :
           conversations[d].updated_at < RequestTime(r) =>
             Place(GetConversations, req[r].id) < Place(GetConversations, d)

\* a request waits for its channel, and its conversation, created second, is
\* listed before the first one, which was last updated earlier
C23_Witness ==
  \E r \in Reqs :
    /\ req[r].pc = "createSession"
    /\ req[r].id = 2
    /\ conversations[1].updated_at < RequestTime(r)
    /\ GetConversations = <<2, 1>>

Running == {r \in Reqs : req'[r] # req[r]}

\* C25: a step of a request whose channel is open inserts and deletes no
\* row and leaves the conversations alone, and every message row that a
\* step changes is the placeholder of a request with an open channel that
\* runs in this step.
C25_WritesOwnPlaceholderOnly ==
  [][/\ \A r \in Running :
          req[r].pc = "session" =>
            /\ Len(messages') = Len(messages)
            /\ conversations' = conversations
     /\ \A i \in DOMAIN messages \cap DOMAIN messages' :
          messages'[i] # messages[i] =>
            \E r \in Running :
              /\ req[r].pc = "session"
              /\ messages[i].id = req[r].assistantMessageId
              /\ messages'[i].id = messages[i].id
              /\ messages[i].role = "assistant"]_vars

\* two exchanges of one conversation with open channels: one has written its
\* final text, the placeholder of the other is still pending
C25_Witness ==
  \E r, q \in Reqs :
    /\ r # q /\ req[r].id = req[q].id
    /\ req[r].source = "done" /\ req[q].source = "running"
    /\ HasRow(req[r].assistantMessageId, req[r].id, "assistant", {"sent"})
    /\ HasRow(req[q].assistantMessageId, req[q].id, "assistant", {"sending"})

\* the rows of a conversation that have status sent
SentRows(msgs, cid) ==
  {i \in DOMAIN msgs : msgs[i].conversation_id = cid /\ msgs[i].status = "sent"}

\* C26: the step that accepts a request fixes its context: one entry, role
\* and content, for each row of the conversation that had status sent before
\* the step, in the order of created_at, and nothing else; the context does
\* not change afterwards.
C26_ContextIsSentHistory ==
  [][\A r \in Reqs :
       /\ (req[r].pc = "new" /\ req'[r].pc = "createSession") =>
            LET h == req'[r].conversationHistory
                sent == SentRows(messages, req'[r].id)
            IN /\ Len(h) = Cardinality(sent)
               /\ \E f \in [DOMAIN h -> sent] :
                    /\ \A k, l \in DOMAIN h : k # l => f[k] # f[l]
                    /\ \A k, l \in DOMAIN h :
                         k < l => messages[f[k]].created_at <= messages[f[l]].created_at
                    /\ \A k \in DOMAIN h :
                         h[k] = [role |-> messages[f[k]].role,
                                 content |-> messages[f[k]].content]
       /\ req[r].pc # "new" =>
            req'[r].conversationHistory = req[r].conversationHistory]_vars

\* a request accepted while the placeholder of the earlier exchange of its
\* conversation was not sent: its context is the earlier user message alone
C26_Witness ==
  \E r, q \in Reqs :
    /\ q < r /\ req[q].id = req[r].id
    /\ req[r].pc = "session"
    /\ req[q].source = "failed"
    /\ req[r].conversationHistory = <<[role |-> "user", content |-> "hello"]>>

\* the events of the channel that stream k has delivered to the view
Delivered(k) ==
  IF k \in Reqs THEN SubSeq(req[k].events, 1, streams[k].delivered) ELSE <<>>

\* C27: the step of onChunk appends the fragment of the event to the
\* streaming buffer and changes nothing else of the view; in every state the
\* buffer is the concatenation, in order, of the fragments the open stream
\* has delivered, and empty when no stream is open.
C27_BufferIsConcatenation ==
  /\ [](/\ \A k \in OpenStreams : view.streamingContent = ConcatChunks(Delivered(k))
        /\ OpenStreams = {} => view.streamingContent = "")
  /\ [][\A k \in Reqs :
          Calls(k, "onChunk") =>
            /\ req[k].events[streams[k].delivered + 1].event = "chunk"
            /\ view' = [view EXCEPT !.streamingContent =
                          @ \o req[k].events[streams[k].delivered + 1].data.content]]_vars

\* two fragments shown, after an earlier send of the view that had shown
\* fragments of its own
C27_Witness ==
  \E j, k \in DOMAIN streams :
    /\ j < k
    /\ streams[j].log # <<>> /\ streams[j].log[1] = "onChunk"
    /\ streams[k].log = <<"onChunk", "onChunk">>
    /\ view.streamingContent = "Hi there"
    /\ view.isStreaming

\* C28: a placeholder whose session has ended, the client being gone, is
\* later sent or failed.
C28_PlaceholderLeavesSending ==
  \A r \in Reqs :
    (req[r].pc = "session" /\ ~req[r].isConnected)
      ~> ~HasRow(req[r].assistantMessageId, req[r].id, "assistant", {"sending"})

\* the place of a row in a listing
PlaceOfRow(list, mid) == CHOOSE i \in DOMAIN list : list[i].id = mid

\* the requests that have inserted their two rows
Accepted == {r \in Reqs : req[r].assistantMessageId # NoId}

\* C29: in every listing of a conversation the query allows, the user message
\* of an exchange comes before its placeholder, and the user message of an
\* exchange started earlier before that of one started later.
C29_UserBeforeAssistant ==
  \A cid \in DOMAIN conversations : \A list \in Listings(messages, cid) :
    \A r \in Accepted :
      req[r].id = cid =>
        /\ PlaceOfRow(list, req[r].userMessageId)
             < PlaceOfRow(list, req[r].assistantMessageId)
        /\ \A q \in Accepted :
             (req[q].id = cid /\ r < q) =>
               PlaceOfRow(list, req[r].assistantMessageId)
                 < PlaceOfRow(list, req[q].userMessageId)

\* C30: whenever the view of a conversation is on screen, not loading, every
\* entry of its list belongs to that conversation.
C30_EntriesOfDisplayedConversation ==
  (view.id # NoRoute /\ ~view.loading) =>
    \A i \in DOMAIN view.messages : view.messages[i].conversation_id = view.id

\* what the view shows of its entries, and what a GET of the messages of a
\* conversation returns of its rows
Shown(entries) ==
  [i \in DOMAIN entries |->
     [role |-> entries[i].role, content |-> entries[i].content,
      status |-> entries[i].status]]

\* the last send of the view has had its terminal callback, and the view
\* still shows its conversation
ExchangeEnded ==
  /\ streams # <<>>
  /\ streams[Len(streams)].state = "ended"
  /\ streams[Len(streams)].cid = view.id
  /\ ~view.isStreaming

\* C31: once the last exchange of the view has ended, the roles, contents
\* and statuses the view shows are those a GET of the conversation's messages
\* returns, in the same order.
C31_ViewEqualsStore ==
  ExchangeEnded => Shown(view.messages) = Shown(GetMessages(view.id).body)

====
